---- MODULE Spec2Model ----
(***************************************************************************)
(* lib/DefinePlugin.js: constant substitution with a persisted snapshot of *)
(* the substituted texts, the load that turns a changed text into a set of *)
(* invalid module paths, and the gate in front of the resolver cache.      *)
(***************************************************************************)
EXTENDS Integers, Sequences, FiniteSets, TLC

\* ------------------------------------------------------------------ bounds

\* plugin processes (module-level state is created anew by each)
MaxProcs == 2
\* builds (compilations of the root compiler) of one process
MaxBuilds == 2
\* firings of the compilation hook within one build (root + child compilers)
MaxCompilations == 2
\* substitutions recorded in one build
MaxRecords == 1
\* firings of afterCompile per build
MaxSignals == 2
MaxElements == 2
MaxWriters == 2

\* ------------------------------------------------------------- code values

Null == [t |-> "null"]
Undefined == [t |-> "undefined"]
NegZero == [t |-> "negzero"]
\* string, number, boolean: serialized by code + ""
Prim(s) == [t |-> "prim", s |-> s]
RegExpValue(s) == [t |-> "regexp", s |-> s]
FunctionValue(s) == [t |-> "function", s |-> s]
BigIntValue(s) == [t |-> "bigint", s |-> s]
Obj(ks, vs) == [t |-> "object", ks |-> ks, vs |-> vs]
Arr(vs) == [t |-> "array", vs |-> vs]

\* new RuntimeValue(fn, fileDependencies): fn is represented by the value it
\* returns; fileDependencies is true (isTrue) or a list of paths
RuntimeValue(fn, isTrue, list) ==
    [t |-> "runtime", fn |-> fn,
     fileDependencies |-> [isTrue |-> isTrue, list |-> list]]

\* a value returned by a fn that raises in some of its calls
MayRaise(v) == [t |-> v.t, s |-> v.s, raises |-> TRUE]

\* result of a call that may raise
Ok(s) == [thrown |-> FALSE, text |-> s]
Thrown == [thrown |-> TRUE, text |-> ""]

\* the value undefined where a text is expected
UndefinedText == "<undefined>"

\* runtimeTemplate.supportsBigIntLiteral()
supportsBigIntLiteral == TRUE

\* JSON.stringify of a key
JSONStringifyKey(key) == "\"" \o key \o "\""

\* Object.keys(obj): the keys of a mapping, the indices of an array
ObjectKeys(obj) ==
    IF obj.t = "array" THEN [i \in 1..Len(obj.vs) |-> ToString(i - 1)]
    ELSE obj.ks

\* RuntimeValue.exec reads parser.state.module.buildInfo before it calls fn:
\* it raises when the parser has no current module
RuntimeValueExec(code, parserHasModule) ==
    IF parserHasModule THEN [thrown |-> FALSE, value |-> code.fn]
    ELSE [thrown |-> TRUE, value |-> Undefined]

\* an exec that marks the module uncacheable whatever fileDependencies is
execUncacheable(code, module, bi) ==
    LET updated ==
            IF code.fileDependencies.isTrue
            THEN [bi EXCEPT !.cacheable = FALSE]
            ELSE [bi EXCEPT !.cacheable = FALSE,
                            !.fileDependencies =
                     @ \cup {code.fileDependencies.list[j] :
                                j \in 1..Len(code.fileDependencies.list)}]
    IN [code |-> code, module |-> module, before |-> bi, after |-> updated,
        calls |-> <<"buildInfo", "fn">>, context |-> [module |-> module],
        returned |-> code.fn]

\* RuntimeValue.exec(parser) for the parser that compiles module, on the
\* buildInfo bi of that module: what it leaves in buildInfo, what it calls in
\* which order, the context it hands to fn and what it returns
exec(code, module, bi) ==
    LET updated ==
            IF code.fileDependencies.isTrue
            THEN [bi EXCEPT !.cacheable = FALSE]
            ELSE [bi EXCEPT !.fileDependencies =
                     @ \cup {code.fileDependencies.list[j] :
                                j \in 1..Len(code.fileDependencies.list)}]
    IN [code |-> code, module |-> module, before |-> bi, after |-> updated,
        calls |-> <<"buildInfo", "fn">>, context |-> [module |-> module],
        returned |-> code.fn]

RECURSIVE RuntimeValuesIn(_)
RECURSIVE RuntimeValuesFrom(_, _)
\* the RuntimeValues toCode(code) calls exec on, in the order of the calls
RuntimeValuesIn(code) ==
    CASE code.t = "runtime" -> <<code>> \o RuntimeValuesIn(code.fn)
      [] code.t \in {"object", "array"} -> RuntimeValuesFrom(code, 1)
      [] OTHER -> <<>>

RuntimeValuesFrom(obj, i) ==
    IF i > Len(obj.vs) THEN <<>>
    ELSE RuntimeValuesIn(obj.vs[i]) \o RuntimeValuesFrom(obj, i + 1)

RECURSIVE Execs(_, _, _)
\* the exec calls of one toCode, each on the buildInfo the one before left
Execs(rvs, module, bi) ==
    IF rvs = <<>> THEN <<>>
    ELSE LET e == exec(rvs[1], module, bi)
         IN <<e>> \o Execs(Tail(rvs), module, e.after)

RECURSIVE toCode(_, _, _)
RECURSIVE JoinElements(_, _, _)

\* one element of obj serialized as c, in front of the serialized rest
JoinPiece(obj, i, c, rest) ==
    IF c.thrown \/ rest.thrown THEN Thrown
    ELSE Ok((IF obj.t = "array" THEN c.text
             ELSE JSONStringifyKey(obj.ks[i]) \o ":" \o c.text)
            \o (IF i < Len(obj.vs) THEN "," ELSE "") \o rest.text)

\* the elements of obj from index i on, each serialized with asiSafe null,
\* joined by ","
JoinElements(obj, i, parserHasModule) ==
    IF i > Len(obj.vs) THEN Ok("")
    ELSE JoinPiece(obj, i, toCode(obj.vs[i], parserHasModule, "null"),
                   JoinElements(obj, i + 1, parserHasModule))

\* the switch of stringifyObj on asiSafe, for the literal code of an array
\* (arr) or of a mapping
asiSafeSwitch(arr, code, asiSafe) ==
    CASE asiSafe = "null" -> code
      [] asiSafe = "true" -> IF arr THEN code ELSE "(" \o code \o ")"
      [] asiSafe = "false" -> IF arr THEN ";" \o code ELSE ";(" \o code \o ")"
      [] OTHER -> "Object(" \o code \o ")"

\* the literal of obj around its joined elements body
stringifyBody(arr, body, asiSafe) ==
    IF body.thrown THEN Thrown
    ELSE Ok(asiSafeSwitch(arr,
                          IF arr THEN "[" \o body.text \o "]"
                          ELSE "{" \o body.text \o "}",
                          asiSafe))

\* a stringifyObj whose switch always takes the case null
stringifyObjBare(obj, parserHasModule, asiSafe) ==
    stringifyBody(obj.t = "array", JoinElements(obj, 1, parserHasModule),
                  "null")

\* asiSafe is "null" (unneeded), "true", "false" or "undefined" (unknown)
stringifyObj(obj, parserHasModule, asiSafe) ==
    stringifyBody(obj.t = "array", JoinElements(obj, 1, parserHasModule),
                  asiSafe)

toCode(code, parserHasModule, asiSafe) ==
    CASE code.t = "null" -> Ok("null")
      [] code.t = "undefined" -> Ok("undefined")
      [] code.t = "negzero" -> Ok("-0")
      [] code.t = "runtime" ->
            IF RuntimeValueExec(code, parserHasModule).thrown THEN Thrown
            ELSE toCode(RuntimeValueExec(code, parserHasModule).value,
                        parserHasModule, asiSafe)
      [] code.t = "regexp" -> Ok(code.s)
      [] code.t = "function" -> Ok("(" \o code.s \o ")")
      [] code.t \in {"object", "array"} ->
            stringifyObj(code, parserHasModule, asiSafe)
      [] code.t = "bigint" ->
            Ok(IF supportsBigIntLiteral THEN code.s \o "n"
               ELSE "BigInt(\"" \o code.s \o "\")")
      [] OTHER -> Ok(code.s)

\* ------------------------------------------------------ walker, registrar

\* /^typeof\s+/.test(key)
IsTypeofKey(key) == Len(key) >= 7 /\ SubSeq(key, 1, 7) = "typeof "

RECURSIVE StripSpaces(_)
StripSpaces(s) ==
    IF Len(s) > 0 /\ SubSeq(s, 1, 1) = " " THEN StripSpaces(SubSeq(s, 2, Len(s)))
    ELSE s

\* key.replace(/^typeof\s+/, "")
StripTypeof(key) ==
    IF IsTypeofKey(key) THEN StripSpaces(SubSeq(key, 7, Len(key))) ELSE key

Tap(hook, key, kind, code, isTypeof) ==
    [hook |-> hook, key |-> key, kind |-> kind, code |-> code,
     isTypeof |-> isTypeof]

RECURSIVE DotPrefixes(_, _, _)
\* one canRename tap for prefix + (key up to each dot), left to right
DotPrefixes(prefix, key, i) ==
    IF i > Len(key) THEN <<>>
    ELSE (IF SubSeq(key, i, i) = "."
          THEN <<Tap("canRename", prefix \o SubSeq(key, 1, i - 1), "prefix",
                     Undefined, FALSE)>>
          ELSE <<>>) \o DotPrefixes(prefix, key, i + 1)

applyDefineKey(prefix, key) == DotPrefixes(prefix, key, 1)

\* applyDefine registering every tap whatever the form of the key
applyDefineEveryTap(key0, code) ==
    LET isTypeof == IsTypeofKey(key0)
        key == StripTypeof(key0)
    IN <<Tap("canRename", key, "leaf", code, isTypeof),
         Tap("evaluateIdentifier", key, "leaf", code, isTypeof),
         Tap("expression", key, "leaf", code, isTypeof),
         Tap("evaluateTypeof", key, "leaf", code, isTypeof),
         Tap("typeof", key, "leaf", code, isTypeof)>>

applyDefine(key0, code) ==
    LET isTypeof == IsTypeofKey(key0)
        key == StripTypeof(key0)
    IN (IF ~isTypeof
        THEN <<Tap("canRename", key, "leaf", code, isTypeof),
               Tap("evaluateIdentifier", key, "leaf", code, isTypeof),
               Tap("expression", key, "leaf", code, isTypeof)>>
        ELSE <<>>)
       \o <<Tap("evaluateTypeof", key, "leaf", code, isTypeof),
            Tap("typeof", key, "leaf", code, isTypeof)>>

applyObjectDefine(key, obj) ==
    <<Tap("canRename", key, "object", obj, FALSE),
      Tap("evaluateIdentifier", key, "object", obj, FALSE),
      Tap("evaluateTypeof", key, "object", obj, FALSE),
      Tap("expression", key, "object", obj, FALSE),
      Tap("typeof", key, "object", obj, FALSE)>>

\* code && typeof code === "object" && !RuntimeValue && !RegExp
IsNestedDefinition(code) == code.t \in {"object", "array"}

RECURSIVE walkDefinitions(_, _, _)
\* the taps registered for the keys of definitions from index i on, in
\* registration order
walkDefinitions(definitions, prefix, i) ==
    IF i > Len(definitions.vs) THEN <<>>
    ELSE LET key == ObjectKeys(definitions)[i]
             code == definitions.vs[i]
         IN (IF IsNestedDefinition(code)
             THEN walkDefinitions(code, prefix \o key \o ".", 1)
                  \o applyObjectDefine(prefix \o key, code)
             ELSE applyDefineKey(prefix, key) \o applyDefine(prefix \o key, code))
            \o walkDefinitions(definitions, prefix, i + 1)

\* ------------------------------------------------------------ environment

\* module.request of the modules that are compiled
Modules == {"/src/m1.js", "/src/m2.js"}

\* request.context.issuer of the resolve requests
Issuer == "/src/index.js"

\* request.request of the resolve requests
Specifiers == {"./m1.js"}

RECURSIVE LastSlash(_, _)
LastSlash(p, i) ==
    IF i = 0 THEN 0
    ELSE IF SubSeq(p, i, i) = "/" THEN i ELSE LastSlash(p, i - 1)

\* path.dirname
Dirname(p) ==
    LET i == LastSlash(p, Len(p))
    IN IF i = 0 THEN "." ELSE IF i = 1 THEN "/" ELSE SubSeq(p, 1, i - 1)

\* path.resolve(dir, request) for an absolute dir and a request that is
\* absolute, "./"-relative or a bare name
PathResolve(dir, request) ==
    IF Len(request) >= 1 /\ SubSeq(request, 1, 1) = "/" THEN request
    ELSE IF Len(request) >= 2 /\ SubSeq(request, 1, 2) = "./"
         THEN dir \o "/" \o SubSeq(request, 3, Len(request))
         ELSE dir \o "/" \o request

\* the paths the gate computes for these requests
RequestPaths == {PathResolve(Dirname(Issuer), sp) : sp \in Specifiers}

\* the definition trees a plugin is constructed with
Trees ==
    << Obj(<<"FOO", "typeof TY">>, <<Prim("1"), Prim("\"number\"")>>),
       Obj(<<"FOO", "typeof TY">>, <<Prim("2"), Prim("\"string\"")>>),
       Obj(<<"typeof X", "X">>, <<Prim("\"number\""), Prim("1")>>),
       Obj(<<"OBJ">>, <<Obj(<<"b">>, <<Prim("1")>>)>>),
       Obj(<<"OBJ">>, <<Obj(<<"b">>, <<Prim("2")>>)>>),
       Obj(<<"E">>, <<Prim("")>>),
       Obj(<<"E">>, <<Prim("1")>>),
       Obj(<<"N">>, <<Null>>),
       Obj(<<"RV">>, <<RuntimeValue(Prim("1"), TRUE, <<>>)>>),
       Obj(<<"RV">>, <<RuntimeValue(Prim("2"), FALSE, <<"/src/dep.txt">>)>>),
       Obj(<<"RV">>,
           <<RuntimeValue(
                Arr(<<RuntimeValue(Prim("1"), TRUE, <<>>),
                      RuntimeValue(Prim("2"), FALSE, <<"/src/dep.txt">>)>>),
                FALSE, <<>>)>>),
       Obj(<<"RV">>,
           <<RuntimeValue(
                Arr(<<RuntimeValue(Prim("2"), FALSE, <<"/src/dep.txt">>),
                      RuntimeValue(Prim("1"), TRUE, <<>>)>>),
                FALSE, <<"/src/a.txt">>)>>),
       Obj(<<"a", "b">>, <<Prim("b"), Prim("a")>>),
       Obj(<<"a", "b">>, <<Prim("typeof b"), Prim("typeof a")>>),
       Obj(<<"typeof X", "typeof Y", "X">>,
           <<Prim("typeof Y"), Prim("typeof X"), Prim("1")>>),
       Obj(<<"a">>, <<Prim("a")>>),
       Obj(<<"W">>, <<Prim("1")>>),
       Obj(<<"W">>, <<Prim("2")>>),
       Obj(<<"a">>, <<Prim("typeof a")>>),
       Obj(<<"a.b.c">>, <<Prim("1")>>),
       Obj(<<"typeof a.b">>, <<Prim("\"number\"")>>),
       Obj(<<"P">>, <<Obj(<<"x.y">>, <<Prim("1")>>)>>),
       Obj(<<"typeof T1">>, <<Prim("1")>>),
       Obj(<<"RC", "RM", "RB">>,
           <<Prim("__webpack_require__(1)"), Prim("__webpack_require__.p"),
             Prim("__webpack_require__")>>),
       Obj(<<"RO">>, <<Obj(<<"f">>, <<Prim("__webpack_require__ (1)")>>)>>),
       Obj(<<"RX">>, <<RuntimeValue(MayRaise(Prim("1")), FALSE, <<>>)>>),
       Obj(<<"a", "RX">>,
           <<Prim("RX"), RuntimeValue(MayRaise(Prim("1")), FALSE, <<>>)>>) >>

\* the configuration is edited between two processes: the values of its keys
\* change, the keys stay
SameKeys(t1, t2) == Trees[t1].ks = Trees[t2].ks

\* the taps of each tree, in registration order
TreeTaps == [t \in 1..Len(Trees) |-> walkDefinitions(Trees[t], "", 1)]

\* parser.evaluate(text).isString(): the text is a string literal or the
\* typeof of a literal
Literals == {"1", "2", "\"number\"", "\"string\"", "null", "undefined"}
StringLiterals == {"\"number\"", "\"string\""}
EvaluatesToString(text) ==
    \/ text \in StringLiterals
    \/ \E l \in Literals : text = "typeof (" \o l \o ")"

\* ------------------------------------------------------------------ state

VARIABLES
    proc,                    \* number of the running process
    definitions,             \* this.definitions: index into Trees
    state,                   \* module-level state {values, modulesUsingKey}
    didAfterCompileHookRun,  \* module-level flag
    didCodeGeneration,       \* module-level flag
    invalidModulePaths,      \* module-level set
    cacheEmpty,              \* module-level flag
    reconcilePromise,        \* "pending", "resolved" or "rejected"
    afterCompileTaps,        \* taps on compiler.hooks.afterCompile
    persisted,               \* what the cache holds under the key "state"
    pendingGets,             \* definePluginCache.get calls without callback yet
    phase,                   \* "idle" or "running": a build is under way
    build,                   \* builds started by this process
    compilations,            \* firings of the compilation hook in this build
    signals,                 \* firings of afterCompile in this build
    deferred,                \* requests waiting behind reconcilePromise
    obs,                     \* what this build has done so far
    buildInfo,               \* module.buildInfo of the modules of this build
    evalStack,               \* tap callbacks waiting in parser.evaluate
    recurseFlags,            \* taps whose recurse / recurseTypeof is true
    other,                   \* a second plugin applied to a second compiler
    calc                     \* a call of the serializer: input and output

vars == <<proc, definitions, state, didAfterCompileHookRun, didCodeGeneration,
          invalidModulePaths, cacheEmpty, reconcilePromise, afterCompileTaps,
          persisted, pendingGets, phase, build, compilations, signals,
          deferred, obs, buildInfo, evalStack, recurseFlags, other, calc>>

\* the state outside the build of the first compiler
sideVars == <<evalStack, recurseFlags, other, calc>>

\* a function extended or overwritten at one key
Put(f, k, v) == [j \in DOMAIN f \cup {k} |-> IF j = k THEN v ELSE f[j]]

EmptyMap == [j \in {} |-> ""]
EmptyState == [values |-> EmptyMap, modulesUsingKey |-> EmptyMap]
Absent == [present |-> FALSE, raw |-> EmptyState, by |-> 0]

\* JSON.stringify(state): the stored text, kept with its two maps, and the
\* tree of the process that wrote it
JSONStringify(st, tree) ==
    [present |-> TRUE,
     raw |-> [values |-> [k \in {j \in DOMAIN st.values :
                                   st.values[j] # UndefinedText}
                            |-> st.values[k]],
              modulesUsingKey |-> st.modulesUsingKey],
     by |-> tree]

\* JSON.parse(rawCacheValue)
JSONParse(rawCacheValue) == rawCacheValue.raw

\* what a build has done: loadedOk (a get callback of this build ran to its
\* end without a read error), readError (one reported a read error), stores,
\* records (the substitutions recorded), signalAfterRecord (afterCompile
\* fired after one was recorded), forced (per path, the requests handed on
\* with _forceRealResolve), lastGet (how the latest get callback ended:
\* "error", "absent", "done" or "thrown"), absent (a get callback of this
\* build found no snapshot), recorded (the [key, text, module] recorded),
\* execs (the RuntimeValue.exec calls of the latest hook call)
NoObs == [loadedOk |-> FALSE, readError |-> FALSE, lastGet |-> "none",
          absent |-> FALSE, stores |-> 0,
          records |-> 0, recorded |-> {}, execs |-> <<>>,
          signalAfterRecord |-> FALSE,
          forced |-> [p \in RequestPaths |-> 0]]

\* module.buildInfo of a module whose build begins
NoBuildInfo == [m \in Modules |-> [cacheable |-> TRUE, fileDependencies |-> {}]]

\* no second plugin is applied
NoOther == [applied |-> FALSE]

\* no call of the serializer
NoCalc == [op |-> "none"]

\* a load of this build has completed
Loaded == obs.loadedOk \/ obs.readError

\* the first process, constructed with one of the trees over a cache that
\* holds one of the snapshots, but for calc
InitBase(trees, snapshots) ==
    /\ proc = 1
    /\ definitions \in trees
    /\ state = EmptyState
    /\ didAfterCompileHookRun = FALSE
    /\ didCodeGeneration = FALSE
    /\ invalidModulePaths = {}
    /\ cacheEmpty = FALSE
    /\ reconcilePromise = "pending"
    /\ afterCompileTaps = 0
    /\ persisted \in snapshots
    /\ pendingGets = 0
    /\ phase = "idle"
    /\ build = 0
    /\ compilations = 0
    /\ signals = 0
    /\ deferred = {}
    /\ obs = NoObs
    /\ buildInfo = NoBuildInfo
    /\ evalStack = <<>>
    /\ recurseFlags = {}
    /\ other = NoOther

\* the same with no call of the serializer
InitFrom(trees, snapshots) == InitBase(trees, snapshots) /\ calc = NoCalc

\* the first process, constructed with one of the trees over an empty cache
InitWith(trees) == InitFrom(trees, {Absent})

\* the trees of the builds of one compiler
SpecTrees == {1, 2, 3, 6, 7, 8}
Init == InitWith(SpecTrees)

\* -------------------------------------------------------------- operations

\* A new process: the module is loaded (its top-level state is initial) and
\* apply() makes the reconcile promise; the cache's content survives.
StartProcess(tree) ==
    /\ evalStack = <<>>
    /\ phase = "idle"
    /\ build > 0
    /\ proc < MaxProcs
    /\ SameKeys(definitions, tree)
    /\ proc' = proc + 1
    /\ definitions' = tree
    /\ state' = EmptyState
    /\ didAfterCompileHookRun' = FALSE
    /\ didCodeGeneration' = FALSE
    /\ invalidModulePaths' = {}
    /\ cacheEmpty' = FALSE
    /\ reconcilePromise' = "pending"
    /\ afterCompileTaps' = 0
    /\ pendingGets' = 0
    /\ build' = 0
    /\ compilations' = 0
    /\ signals' = 0
    /\ deferred' = {}
    /\ obs' = NoObs
    /\ buildInfo' = NoBuildInfo
    /\ other' = NoOther
    /\ UNCHANGED <<persisted, phase, evalStack, recurseFlags, calc>>

\* The tap on compiler.hooks.compilation: issues the cache get and taps
\* afterCompile of the root compiler. This firing starts a build.
Compilation ==
    /\ evalStack = <<>>
    /\ phase = "idle"
    /\ build < MaxBuilds
    /\ build' = build + 1
    /\ compilations' = 1
    /\ signals' = 0
    /\ obs' = NoObs
    /\ phase' = "running"
    /\ pendingGets' = pendingGets + 1
    /\ afterCompileTaps' = afterCompileTaps + 1
    /\ recurseFlags' = {}
    /\ UNCHANGED <<proc, definitions, state, didAfterCompileHookRun,
                   didCodeGeneration, invalidModulePaths, cacheEmpty,
                   reconcilePromise, persisted, deferred>>
    /\ UNCHANGED <<buildInfo, evalStack, other, calc>>

\* The same tap, fired again in a running build by the compilation of a
\* child compiler (which inherits the taps of compiler.hooks.compilation).
ChildCompilation ==
    /\ phase = "running"
    /\ compilations < MaxCompilations
    /\ compilations' = compilations + 1
    /\ pendingGets' = pendingGets + 1
    /\ afterCompileTaps' = afterCompileTaps + 1
    /\ UNCHANGED <<proc, definitions, state, didAfterCompileHookRun,
                   didCodeGeneration, invalidModulePaths, cacheEmpty,
                   reconcilePromise, persisted, phase, build, signals,
                   deferred, obs>>
    /\ UNCHANGED <<buildInfo, evalStack, recurseFlags, other, calc>>

\* resolveReconcile / rejectReconcile: a settled promise stays as it is
Settle(promise, to) == IF promise = "pending" THEN to ELSE promise

\* the elements of a list, as a set
Elements(list) == {list[j] : j \in 1..Len(list)}

RECURSIVE run(_, _, _, _, _)
\* run(obj, prefix) over the keys of obj from index i on: the invalid paths
\* after it, and whether it raised
run(obj, prefix, i, cache, invalid) ==
    IF obj.t = "null" THEN [thrown |-> TRUE, invalid |-> invalid]
    ELSE IF i > Len(obj.vs) THEN [thrown |-> FALSE, invalid |-> invalid]
    ELSE
      LET key == ObjectKeys(obj)[i]
          val == obj.vs[i]
          fullKey == IF prefix # "" THEN prefix \o "." \o key ELSE key
      IN IF val.t \in {"object", "array", "null"}
         THEN LET inner == run(val, fullKey, 1, cache, invalid)
              IN IF inner.thrown THEN inner
                 ELSE run(obj, prefix, i + 1, cache, inner.invalid)
         ELSE LET codeStr == toCode(val, FALSE, "null")
              IN IF codeStr.thrown THEN [thrown |-> TRUE, invalid |-> invalid]
                 ELSE IF codeStr.text = ""
                 THEN run(obj, prefix, i + 1, cache, invalid)
                 ELSE IF /\ fullKey \in DOMAIN cache.values
                         /\ Len(cache.values[fullKey]) > 0
                         /\ codeStr.text # cache.values[fullKey]
                 THEN run(obj, prefix, i + 1, cache,
                          invalid \cup Elements(cache.modulesUsingKey[fullKey]))
                 ELSE run(obj, prefix, i + 1, cache, invalid)

\* The callback of definePluginCache.get.
CacheGetCallback(err) ==
    /\ evalStack = <<>>
    /\ pendingGets > 0
    /\ pendingGets' = pendingGets - 1
    /\ IF err
       THEN /\ reconcilePromise' = Settle(reconcilePromise, "rejected")
            /\ obs' = [obs EXCEPT !.readError = TRUE, !.lastGet = "error"]
            /\ UNCHANGED <<cacheEmpty, invalidModulePaths>>
       ELSE IF ~persisted.present
       THEN /\ cacheEmpty' = TRUE
            /\ reconcilePromise' = Settle(reconcilePromise, "resolved")
            /\ obs' = [obs EXCEPT !.loadedOk = TRUE, !.lastGet = "absent",
                                 !.absent = TRUE]
            /\ UNCHANGED invalidModulePaths
       ELSE LET r == run(Trees[definitions], "", 1, JSONParse(persisted),
                         invalidModulePaths)
            IN /\ invalidModulePaths' = r.invalid
               /\ reconcilePromise' =
                     IF r.thrown THEN reconcilePromise
                     ELSE Settle(reconcilePromise, "resolved")
               /\ obs' = IF r.thrown THEN [obs EXCEPT !.lastGet = "thrown"]
                         ELSE [obs EXCEPT !.loadedOk = TRUE,
                                          !.lastGet = "done"]
               /\ UNCHANGED cacheEmpty
    /\ UNCHANGED <<proc, definitions, state, didAfterCompileHookRun,
                   didCodeGeneration, afterCompileTaps, persisted, phase,
                   build, compilations, signals, deferred>>
    /\ UNCHANGED <<buildInfo, evalStack, recurseFlags, other, calc>>

\* tapInfo.fn: the request waits for reconcilePromise
ResolveRequest(specifier) ==
    /\ phase = "running"
    /\ [request |-> specifier, issuer |-> Issuer] \notin deferred
    /\ deferred' = deferred \cup {[request |-> specifier, issuer |-> Issuer]}
    /\ UNCHANGED <<proc, definitions, state, didAfterCompileHookRun,
                   didCodeGeneration, invalidModulePaths, cacheEmpty,
                   reconcilePromise, afterCompileTaps, persisted, pendingGets,
                   phase, build, compilations, signals, obs>>
    /\ UNCHANGED <<buildInfo, evalStack, recurseFlags, other, calc>>

ModulePath(req) == PathResolve(Dirname(req.issuer), req.request)

\* originalTapFn(request, resolveContext, callback), as the build sees it
Delegate(o, req, force) ==
    IF force THEN [o EXCEPT !.forced[ModulePath(req)] = @ + 1] ELSE o

\* the test of the .then continuation: the request is forced
GateHit(req) == ~cacheEmpty /\ ModulePath(req) \in invalidModulePaths

\* the calls of originalTapFn made by tapInfo.fn for one request
Invoked(req, n) == [op |-> "gate", request |-> req, invoked |-> n]

\* the .then continuation of tapInfo.fn, its calls of originalTapFn noted
\* as calls
GateThenNoting(req, calls) ==
    /\ req \in deferred
    /\ reconcilePromise = "resolved"
    /\ deferred' = deferred \ {req}
    /\ obs' = Delegate(obs, req, GateHit(req))
    /\ invalidModulePaths' =
          IF GateHit(req) THEN invalidModulePaths \ {ModulePath(req)}
          ELSE invalidModulePaths
    /\ calc' = calls
    /\ UNCHANGED <<proc, definitions, state, didAfterCompileHookRun,
                   didCodeGeneration, cacheEmpty, reconcilePromise,
                   afterCompileTaps, persisted, pendingGets, phase, build,
                   compilations, signals>>
    /\ UNCHANGED <<buildInfo, evalStack, recurseFlags, other>>

\* the .then continuation of tapInfo.fn
GateThen(req) == GateThenNoting(req, calc)

\* the .then continuation when originalTapFn, or the callback it calls,
\* raises: the promise of .then is rejected and the .catch continuation
\* calls originalTapFn with the same request again
GateThenRaise(req) ==
    /\ req \in deferred
    /\ reconcilePromise = "resolved"
    /\ deferred' = deferred \ {req}
    /\ obs' = Delegate(Delegate(obs, req, GateHit(req)), req, GateHit(req))
    /\ invalidModulePaths' =
          IF GateHit(req) THEN invalidModulePaths \ {ModulePath(req)}
          ELSE invalidModulePaths
    /\ calc' = Invoked(req, 2)
    /\ UNCHANGED <<proc, definitions, state, didAfterCompileHookRun,
                   didCodeGeneration, cacheEmpty, reconcilePromise,
                   afterCompileTaps, persisted, pendingGets, phase, build,
                   compilations, signals>>
    /\ UNCHANGED <<buildInfo, evalStack, recurseFlags, other>>

\* the .catch continuation of tapInfo.fn, its calls of originalTapFn noted
\* as calls
GateCatchNoting(req, calls) ==
    /\ req \in deferred
    /\ reconcilePromise = "rejected"
    /\ deferred' = deferred \ {req}
    /\ obs' = Delegate(obs, req, FALSE)
    /\ calc' = calls
    /\ UNCHANGED <<proc, definitions, state, didAfterCompileHookRun,
                   didCodeGeneration, invalidModulePaths, cacheEmpty,
                   reconcilePromise, afterCompileTaps, persisted, pendingGets,
                   phase, build, compilations, signals>>
    /\ UNCHANGED <<buildInfo, evalStack, recurseFlags, other>>

\* the .catch continuation of tapInfo.fn
GateCatch(req) == GateCatchNoting(req, calc)

\* BasicEvaluatedExpression.asString() of what the object taps build: the
\* truthy expression of evaluateIdentifier has no text, the string
\* expression of evaluateTypeof has its string, and what the constant
\* dependency of typeof returns is no expression at all
asString(res) ==
    CASE res = "truthy" -> Ok(UndefinedText)
      [] res = "object" -> Ok("object")
      [] OTHER -> Thrown

RequireHelper == "__webpack_require__"

CharAt(text, i) == IF i <= Len(text) THEN SubSeq(text, i, i) ELSE ""

\* text has the helper's name at position i
HelperAt(text, i) ==
    /\ i + Len(RequireHelper) - 1 <= Len(text)
    /\ SubSeq(text, i, i + Len(RequireHelper) - 1) = RequireHelper

RECURSIVE SkipWhitespace(_, _)
\* \s*: the first position from i on that holds no white space
SkipWhitespace(text, i) ==
    IF CharAt(text, i) \in {" ", "\t", "\n"}
    THEN SkipWhitespace(text, i + 1)
    ELSE i

\* /__webpack_require__\s*(!?\.)/.test(text): the helper's name, white space,
\* an optional "!" and a "."
TestRequireDot(text) ==
    \E i \in 1..Len(text) :
       /\ HelperAt(text, i)
       /\ LET j == SkipWhitespace(text, i + Len(RequireHelper))
          IN \/ CharAt(text, j) = "."
             \/ CharAt(text, j) = "!" /\ CharAt(text, j + 1) = "."

\* /__webpack_require__/.test(text)
TestRequire(text) == \E i \in 1..Len(text) : HelperAt(text, i)

\* the runtime requirements the expression tap hands to toConstantDependency
runtimeRequirements(text) ==
    IF TestRequireDot(text) THEN {"require"}
    ELSE IF TestRequire(text) THEN {"requireScope"}
    ELSE {}

\* the callback of an applyObjectDefine tap other than expression
ObjectTapCallback(tap) ==
    LET strCode == asString(CASE tap.hook = "evaluateIdentifier" -> "truthy"
                              [] tap.hook = "evaluateTypeof" -> "object"
                              [] OTHER -> "true")
    IN IF strCode.thrown THEN [outcome |-> "thrown", strCode |-> "", requirements |-> {}]
       ELSE [outcome |-> "result", strCode |-> strCode.text,
             requirements |-> {}]

\* what the callback of tap gives for the text strCode its toCode made
TapResult(tap, strCode) ==
    IF strCode.thrown THEN [outcome |-> "thrown", strCode |-> "", requirements |-> {}]
    ELSE IF /\ tap.hook = "typeof"
            /\ ~EvaluatesToString(IF tap.isTypeof THEN strCode.text
                                  ELSE "typeof (" \o strCode.text \o ")")
    THEN [outcome |-> "none", strCode |-> "", requirements |-> {}]
    ELSE [outcome |-> "result", strCode |-> strCode.text,
          requirements |-> IF tap.hook = "expression"
                           THEN runtimeRequirements(strCode.text) ELSE {}]

\* the asiSafe a tap hands to toCode
TapAsiSafe(tap, asiPosition) ==
    IF tap.kind # "object" /\ tap.hook # "expression" THEN "null"
    ELSE IF asiPosition THEN "false" ELSE "true"

\* the callback a tap passes to hookCallback: [outcome, strCode] with outcome
\* "result", "none" or "thrown"
TapCallback(tap, asiPosition) ==
    IF tap.kind = "object" /\ tap.hook # "expression"
    THEN ObjectTapCallback(tap)
    ELSE TapResult(tap, toCode(tap.code, TRUE, TapAsiSafe(tap, asiPosition)))

\* the RuntimeValue.exec calls of the callback of tap
TapExecs(tap, module, bi) ==
    IF tap.kind = "object" /\ tap.hook # "expression" THEN <<>>
    ELSE Execs(RuntimeValuesIn(tap.code), module, bi)

RECURSIVE CallTaps(_, _, _)
\* a bail hook: the taps are called in registration order until one returns
\* a result or raises
CallTaps(taps, i, asiPosition) ==
    IF i > Len(taps) THEN [outcome |-> "none", strCode |-> "", requirements |-> {}]
    ELSE LET r == TapCallback(taps[i], asiPosition)
         IN IF r.outcome = "none" THEN CallTaps(taps, i + 1, asiPosition)
            ELSE r

\* the taps of hook.for(key), in registration order
CalledTaps(tree, hook, key) ==
    SelectSeq(TreeTaps[tree], LAMBDA t : t.hook = hook /\ t.key = key)

RECURSIVE CalledExecs(_, _, _, _, _)
\* the RuntimeValue.exec calls of the taps CallTaps calls
CalledExecs(taps, i, asiPosition, module, bi) ==
    IF i > Len(taps) THEN <<>>
    ELSE LET ev == TapExecs(taps[i], module, bi)
             left == IF ev = <<>> THEN bi ELSE ev[Len(ev)].after
         IN IF TapCallback(taps[i], asiPosition).outcome = "none"
            THEN ev \o CalledExecs(taps, i + 1, asiPosition, module, left)
            ELSE ev

Hooks == {"evaluateIdentifier", "expression", "evaluateTypeof", "typeof"}

TapKeys(tree) == {TreeTaps[tree][j].key : j \in 1..Len(TreeTaps[tree])}

\* hookCallback(key, callback)(expr, module) on a result
hookCallback(st, key, strCode, module) ==
    [values |-> Put(st.values, key, strCode),
     modulesUsingKey |->
        Put(st.modulesUsingKey, key,
            Append(IF key \in DOMAIN st.modulesUsingKey
                   THEN st.modulesUsingKey[key] ELSE <<>>, module))]

\* no read is in flight and no request waits: modules are parsed and the
\* compilation completes behind the resolution of their requests
Quiet == pendingGets = 0 /\ deferred = {}

\* The parser calls hook.for(key) while it compiles module, in a build of
\* up to limit such calls.
HookCallUpTo(limit, hook, key, module, asiPosition) ==
    /\ phase = "running"
    /\ Quiet
    /\ obs.records < limit
    /\ Len(CalledTaps(definitions, hook, key)) > 0
    /\ LET r == CallTaps(CalledTaps(definitions, hook, key), 1, asiPosition)
       IN /\ r.outcome = "result"
          /\ didCodeGeneration' = TRUE
          /\ state' = hookCallback(state, key, r.strCode, module)
          /\ obs' = [obs EXCEPT
                       !.records = @ + 1,
                       !.recorded = @ \cup {[key |-> key, text |-> r.strCode,
                                             module |-> module]},
                       !.execs = CalledExecs(
                                    CalledTaps(definitions, hook, key), 1,
                                    asiPosition, module, buildInfo[module])]
          /\ buildInfo' =
                IF obs'.execs = <<>> THEN buildInfo
                ELSE [buildInfo EXCEPT
                         ![module] = obs'.execs[Len(obs'.execs)].after]
    /\ UNCHANGED <<proc, definitions, didAfterCompileHookRun,
                   invalidModulePaths, cacheEmpty, reconcilePromise,
                   afterCompileTaps, persisted, pendingGets, phase, build,
                   compilations, signals, deferred>>
    /\ UNCHANGED sideVars

\* The parser calls hook.for(key) while it compiles module.
HookCall(hook, key, module, asiPosition) ==
    HookCallUpTo(MaxRecords, hook, key, module, asiPosition)

RECURSIVE ParseExpr(_)
\* parser.evaluate(text) reads text as typeof operators applied, with or
\* without parentheses, to one identifier or literal
ParseExpr(text) ==
    IF Len(text) >= 7 /\ SubSeq(text, 1, 7) = "typeof "
    THEN LET e == ParseExpr(SubSeq(text, 8, Len(text)))
         IN [typeofs |-> e.typeofs + 1, atom |-> e.atom]
    ELSE IF /\ Len(text) >= 2
            /\ SubSeq(text, 1, 1) = "("
            /\ SubSeq(text, Len(text), Len(text)) = ")"
         THEN ParseExpr(SubSeq(text, 2, Len(text) - 1))
         ELSE [typeofs |-> 0, atom |-> text]

\* the text the callback of an evaluateIdentifier or evaluateTypeof tap of
\* applyDefine hands to parser.evaluate
EvaluatedText(tap) ==
    LET strCode == toCode(tap.code, TRUE, "null").text
    IN IF tap.hook = "evaluateTypeof" /\ ~tap.isTypeof
       THEN "typeof (" \o strCode \o ")"
       ELSE strCode

\* the same with one flag per key, shared by its two evaluation hooks
FirstFreeShared(hook, key) ==
    LET taps == TreeTaps[definitions]
        free == {i \in 1..Len(taps) :
                    /\ taps[i].hook = hook
                    /\ taps[i].key = key
                    /\ taps[i].kind = "leaf"
                    /\ \A j \in recurseFlags : taps[j].key # key}
    IN IF free = {} THEN 0
       ELSE CHOOSE i \in free : \A j \in free : i <= j

\* hook.for(key).call: the first tap, in registration order, whose callback
\* does not return at once because its recurse flag is set; 0 when all do
FirstFree(hook, key) ==
    LET taps == TreeTaps[definitions]
        free == {i \in 1..Len(taps) :
                    /\ taps[i].hook = hook
                    /\ taps[i].key = key
                    /\ taps[i].kind = "leaf"
                    /\ i \notin recurseFlags}
    IN IF free = {} THEN 0
       ELSE CHOOSE i \in free : \A j \in free : i <= j

\* a callback that has set its flag and called parser.evaluate: the hook the
\* evaluation calls next is evaluateTypeof ("typeof"), evaluateIdentifier
\* ("identifier") or none ("done")
Frame(i, module) ==
    [tap |-> i, module |-> module,
     stage |-> IF ParseExpr(EvaluatedText(TreeTaps[definitions][i])).typeofs > 0
               THEN "typeof" ELSE "identifier"]

EvaluationHooks == {"evaluateIdentifier", "evaluateTypeof"}

\* The parser meets key, or typeof key, in module and calls the hook.
EvaluateBegin(hook, key, module) ==
    /\ phase = "running"
    /\ Quiet
    /\ evalStack = <<>>
    /\ obs.records < MaxRecords
    /\ FirstFree(hook, key) > 0
    /\ evalStack' = <<Frame(FirstFree(hook, key), module)>>
    /\ recurseFlags' = recurseFlags \cup {FirstFree(hook, key)}
    /\ UNCHANGED <<proc, definitions, state, didAfterCompileHookRun,
                   didCodeGeneration, invalidModulePaths, cacheEmpty,
                   reconcilePromise, afterCompileTaps, persisted, pendingGets,
                   phase, build, compilations, signals, deferred, obs,
                   buildInfo, other, calc>>

\* parser.evaluate, called by the callback on top, calls the hook of the
\* identifier in its text: a callback is entered, or every tap returns
\* nothing and the evaluation goes on without the hook.
EvaluateCall ==
    /\ evalStack # <<>>
    /\ LET top == evalStack[Len(evalStack)]
           expr == ParseExpr(EvaluatedText(TreeTaps[definitions][top.tap]))
           hook == IF top.stage = "typeof" THEN "evaluateTypeof"
                   ELSE "evaluateIdentifier"
           i == FirstFree(hook, expr.atom)
       IN /\ top.stage # "done"
          /\ IF i > 0
             THEN /\ evalStack' = Append(evalStack, Frame(i, top.module))
                  /\ recurseFlags' = recurseFlags \cup {i}
             ELSE /\ evalStack' =
                        [evalStack EXCEPT ![Len(evalStack)].stage =
                            IF top.stage = "typeof" THEN "identifier"
                            ELSE "done"]
                  /\ UNCHANGED recurseFlags
    /\ UNCHANGED <<proc, definitions, state, didAfterCompileHookRun,
                   didCodeGeneration, invalidModulePaths, cacheEmpty,
                   reconcilePromise, afterCompileTaps, persisted, pendingGets,
                   phase, build, compilations, signals, deferred, obs,
                   buildInfo, other, calc>>

\* code is a RuntimeValue whose fn may raise
fnMayRaise(code) == code.t = "runtime" /\ "raises" \in DOMAIN code.fn

\* The parser meets key, or typeof key, in module and calls the hook; the
\* callback sets its flag, toCode calls exec and fn raises: the exception
\* leaves the callback before the flag is reset.
EvaluateRaise(hook, key, module) ==
    /\ phase = "running"
    /\ Quiet
    /\ evalStack = <<>>
    /\ obs.records < MaxRecords
    /\ FirstFree(hook, key) > 0
    /\ fnMayRaise(TreeTaps[definitions][FirstFree(hook, key)].code)
    /\ recurseFlags' = recurseFlags \cup {FirstFree(hook, key)}
    /\ UNCHANGED <<proc, definitions, state, didAfterCompileHookRun,
                   didCodeGeneration, invalidModulePaths, cacheEmpty,
                   reconcilePromise, afterCompileTaps, persisted, pendingGets,
                   phase, build, compilations, signals, deferred, obs,
                   buildInfo, evalStack, other, calc>>

\* The same in a callback entered by parser.evaluate: the exception leaves
\* every callback in progress, none of which resets its flag.
EvaluateCallRaise ==
    /\ evalStack # <<>>
    /\ LET top == evalStack[Len(evalStack)]
           expr == ParseExpr(EvaluatedText(TreeTaps[definitions][top.tap]))
           hook == IF top.stage = "typeof" THEN "evaluateTypeof"
                   ELSE "evaluateIdentifier"
           i == FirstFree(hook, expr.atom)
       IN /\ top.stage # "done"
          /\ i > 0
          /\ fnMayRaise(TreeTaps[definitions][i].code)
          /\ recurseFlags' = recurseFlags \cup {i}
          /\ evalStack' = <<>>
    /\ UNCHANGED <<proc, definitions, state, didAfterCompileHookRun,
                   didCodeGeneration, invalidModulePaths, cacheEmpty,
                   reconcilePromise, afterCompileTaps, persisted, pendingGets,
                   phase, build, compilations, signals, deferred, obs,
                   buildInfo, other, calc>>

\* parser.evaluate returns to the callback on top: the flag is reset, the
\* callback returns [strCode, res] and hookCallback records it.
EvaluateReturn ==
    /\ evalStack # <<>>
    /\ LET top == evalStack[Len(evalStack)]
           tap == TreeTaps[definitions][top.tap]
           strCode == toCode(tap.code, TRUE, "null").text
           rest == SubSeq(evalStack, 1, Len(evalStack) - 1)
       IN /\ top.stage = "done"
          /\ recurseFlags' = recurseFlags \ {top.tap}
          /\ didCodeGeneration' = TRUE
          /\ state' = hookCallback(state, tap.key, strCode, top.module)
          /\ obs' = [obs EXCEPT
                       !.records = @ + 1,
                       !.recorded = @ \cup {[key |-> tap.key, text |-> strCode,
                                             module |-> top.module]}]
          /\ evalStack' = IF rest = <<>> THEN rest
                          ELSE [rest EXCEPT ![Len(rest)].stage = "done"]
    /\ UNCHANGED <<proc, definitions, didAfterCompileHookRun,
                   invalidModulePaths, cacheEmpty, reconcilePromise,
                   afterCompileTaps, persisted, pendingGets, phase, build,
                   compilations, signals, deferred, buildInfo, other, calc>>

\* afterCompileTap without its early return on didAfterCompileHookRun
afterCompileTapUnguarded(g) ==
    IF ~didCodeGeneration THEN g
    ELSE [didAfterCompileHookRun |-> TRUE,
          persisted |-> JSONStringify(state, definitions),
          stores |-> g.stores + 1]

\* one tap on afterCompile, on g = [didAfterCompileHookRun, persisted, stores]
afterCompileTap(g) ==
    IF g.didAfterCompileHookRun THEN g
    ELSE IF ~didCodeGeneration THEN g
    ELSE [didAfterCompileHookRun |-> TRUE,
          persisted |-> JSONStringify(state, definitions),
          stores |-> g.stores + 1]

RECURSIVE CallAfterCompileTaps(_, _)
CallAfterCompileTaps(n, g) ==
    IF n = 0 THEN g ELSE CallAfterCompileTaps(n - 1, afterCompileTap(g))

\* compiler.hooks.afterCompile fires: every tap registered so far is called
AfterCompile ==
    /\ evalStack = <<>>
    /\ phase = "running"
    /\ Quiet
    /\ signals < MaxSignals
    /\ signals' = signals + 1
    /\ LET g == CallAfterCompileTaps(
                   afterCompileTaps,
                   [didAfterCompileHookRun |-> didAfterCompileHookRun,
                    persisted |-> persisted, stores |-> obs.stores])
       IN /\ didAfterCompileHookRun' = g.didAfterCompileHookRun
          /\ persisted' = g.persisted
          /\ obs' = [obs EXCEPT !.stores = g.stores,
                                !.signalAfterRecord = @ \/ obs.records > 0]
    /\ UNCHANGED <<proc, definitions, state, didCodeGeneration,
                   invalidModulePaths, cacheEmpty, reconcilePromise,
                   afterCompileTaps, pendingGets, phase, build, compilations,
                   deferred>>
    /\ UNCHANGED <<buildInfo, evalStack, recurseFlags, other, calc>>

\* The build ends: completed, or aborted before afterCompile fired.
EndBuild ==
    /\ evalStack = <<>>
    /\ phase = "running"
    /\ pendingGets = 0
    /\ deferred = {}
    /\ phase' = "idle"
    /\ compilations' = 0
    /\ signals' = 0
    /\ obs' = NoObs
    /\ buildInfo' = NoBuildInfo
    /\ UNCHANGED <<proc, definitions, state, didAfterCompileHookRun,
                   didCodeGeneration, invalidModulePaths, cacheEmpty,
                   reconcilePromise, afterCompileTaps, persisted, pendingGets,
                   build, deferred>>
    /\ UNCHANGED sideVars

Requests == {[request |-> sp, issuer |-> Issuer] : sp \in Specifiers}

\* ------------------------------------------------- a second build pipeline

\* module.request of the modules the second compiler compiles
OtherModules == {"/lib/n1.js"}

\* new DefinePlugin(Trees[tree]).apply(compiler2) in the same process: its
\* own definitions, reconcilePromise and cache; the module-level state is
\* the one the first plugin uses
OtherApply(tree) ==
    /\ evalStack = <<>>
    /\ ~other.applied
    /\ other' = [applied |-> TRUE, definitions |-> tree,
                 reconcilePromise |-> "pending", persisted |-> Absent,
                 afterCompileTaps |-> 0, pendingGets |-> 0, records |-> 0,
                 lastGet |-> "none"]
    /\ UNCHANGED <<proc, definitions, state, didAfterCompileHookRun,
                   didCodeGeneration, invalidModulePaths, cacheEmpty,
                   reconcilePromise, afterCompileTaps, persisted, pendingGets,
                   phase, build, compilations, signals, deferred, obs,
                   buildInfo, evalStack, recurseFlags, calc>>

\* the compilation tap of the second plugin, in its one build
OtherCompilation ==
    /\ other.applied
    /\ other.afterCompileTaps = 0
    /\ other' = [other EXCEPT !.afterCompileTaps = @ + 1,
                              !.pendingGets = @ + 1]
    /\ UNCHANGED <<proc, definitions, state, didAfterCompileHookRun,
                   didCodeGeneration, invalidModulePaths, cacheEmpty,
                   reconcilePromise, afterCompileTaps, persisted, pendingGets,
                   phase, build, compilations, signals, deferred, obs,
                   buildInfo, evalStack, recurseFlags, calc>>

\* the get callback of the second plugin
OtherCacheGetCallback(err) ==
    /\ other.applied
    /\ other.pendingGets > 0
    /\ IF err
       THEN /\ other' = [other EXCEPT
                           !.pendingGets = @ - 1,
                           !.lastGet = "error",
                           !.reconcilePromise = Settle(@, "rejected")]
            /\ UNCHANGED <<cacheEmpty, invalidModulePaths>>
       ELSE IF ~other.persisted.present
       THEN /\ cacheEmpty' = TRUE
            /\ other' = [other EXCEPT
                           !.pendingGets = @ - 1,
                           !.lastGet = "absent",
                           !.reconcilePromise = Settle(@, "resolved")]
            /\ UNCHANGED invalidModulePaths
       ELSE LET r == run(Trees[other.definitions], "", 1,
                         JSONParse(other.persisted), invalidModulePaths)
            IN /\ invalidModulePaths' = r.invalid
               /\ other' = [other EXCEPT
                              !.pendingGets = @ - 1,
                              !.lastGet = IF r.thrown THEN "thrown"
                                          ELSE "done",
                              !.reconcilePromise =
                                 IF r.thrown THEN @
                                 ELSE Settle(@, "resolved")]
               /\ UNCHANGED cacheEmpty
    /\ UNCHANGED <<proc, definitions, state, didAfterCompileHookRun,
                   didCodeGeneration, reconcilePromise, afterCompileTaps,
                   persisted, pendingGets, phase, build, compilations,
                   signals, deferred, obs, buildInfo, evalStack,
                   recurseFlags, calc>>

\* the parser of the second compiler calls hook.for(key)
OtherHookCall(hook, key, module, asiPosition) ==
    /\ other.applied
    /\ other.afterCompileTaps > 0
    /\ other.pendingGets = 0
    /\ other.records < MaxRecords
    /\ Len(CalledTaps(other.definitions, hook, key)) > 0
    /\ LET r == CallTaps(CalledTaps(other.definitions, hook, key), 1,
                         asiPosition)
       IN /\ r.outcome = "result"
          /\ didCodeGeneration' = TRUE
          /\ state' = hookCallback(state, key, r.strCode, module)
    /\ other' = [other EXCEPT !.records = @ + 1]
    /\ UNCHANGED <<proc, definitions, didAfterCompileHookRun,
                   invalidModulePaths, cacheEmpty, reconcilePromise,
                   afterCompileTaps, persisted, pendingGets, phase, build,
                   compilations, signals, deferred, obs, buildInfo,
                   evalStack, recurseFlags, calc>>

\* one afterCompile tap of the second plugin, on g = [didAfterCompileHookRun,
\* persisted]
OtherAfterCompileTap(g) ==
    IF g.didAfterCompileHookRun THEN g
    ELSE IF ~didCodeGeneration THEN g
    ELSE [didAfterCompileHookRun |-> TRUE,
          persisted |-> JSONStringify(state, other.definitions)]

RECURSIVE OtherCallAfterCompileTaps(_, _)
OtherCallAfterCompileTaps(n, g) ==
    IF n = 0 THEN g
    ELSE OtherCallAfterCompileTaps(n - 1, OtherAfterCompileTap(g))

\* afterCompile of the second compiler fires
OtherAfterCompile ==
    /\ other.applied
    /\ other.afterCompileTaps > 0
    /\ other.pendingGets = 0
    /\ LET g == OtherCallAfterCompileTaps(
                   other.afterCompileTaps,
                   [didAfterCompileHookRun |-> didAfterCompileHookRun,
                    persisted |-> other.persisted])
       IN /\ didAfterCompileHookRun' = g.didAfterCompileHookRun
          /\ other' = [other EXCEPT !.persisted = g.persisted]
    /\ UNCHANGED <<proc, definitions, state, didCodeGeneration,
                   invalidModulePaths, cacheEmpty, reconcilePromise,
                   afterCompileTaps, persisted, pendingGets, phase, build,
                   compilations, signals, deferred, obs, buildInfo,
                   evalStack, recurseFlags, calc>>

Next ==
    \/ \E tree \in 1..Len(Trees) : StartProcess(tree)
    \/ Compilation
    \/ \E err \in BOOLEAN : CacheGetCallback(err)
    \/ \E specifier \in Specifiers : ResolveRequest(specifier)
    \/ \E req \in Requests : GateThen(req)
    \/ \E req \in Requests : GateCatch(req)
    \/ \E key \in TapKeys(definitions) :
          \E hook \in Hooks, module \in Modules, asiPosition \in BOOLEAN :
             HookCall(hook, key, module, asiPosition)
    \/ AfterCompile
    \/ EndBuild

\* builds of a root compiler without child compilers
Spec == Init /\ [][Next]_vars

\* builds in which child compilers are compiled too
ChildTrees == {3, 6, 7}
ChildInit == InitWith(ChildTrees)
ChildNext == Next \/ ChildCompilation
ChildSpec == ChildInit /\ [][ChildNext]_vars

\* builds over definitions that hold a nested mapping, without resolve
\* requests
ObjTrees == {4, 5}
ObjInit == InitWith(ObjTrees)
ObjNext ==
    \/ \E tree \in ObjTrees : StartProcess(tree)
    \/ Compilation
    \/ \E err \in BOOLEAN : CacheGetCallback(err)
    \/ \E key \in TapKeys(definitions) :
          \E hook \in Hooks, module \in Modules, asiPosition \in BOOLEAN :
             HookCall(hook, key, module, asiPosition)
    \/ AfterCompile
    \/ EndBuild
ObjSpec == ObjInit /\ [][ObjNext]_vars

\* builds of one process over definitions that refer to each other
RecTrees == {13, 14, 15, 16, 19}
RecInit == InitWith(RecTrees)
RecNext ==
    \/ Compilation
    \/ \E err \in BOOLEAN : CacheGetCallback(err)
    \/ \E key \in TapKeys(definitions) :
          \E hook \in EvaluationHooks, module \in Modules :
             EvaluateBegin(hook, key, module)
    \/ EvaluateCall
    \/ EvaluateReturn
    \/ EndBuild
RecSpec == RecInit /\ [][RecNext]_vars

\* builds whose resolution requests pass the gate, with a wrapped step
\* that may raise
GateTrees == {1, 2}
GateInit == InitWith(GateTrees)
GateNext ==
    \/ \E tree \in 1..Len(Trees) : StartProcess(tree)
    \/ Compilation
    \/ \E err \in BOOLEAN : CacheGetCallback(err)
    \/ \E specifier \in Specifiers : ResolveRequest(specifier)
    \/ \E req \in Requests : GateThenNoting(req, Invoked(req, 1))
    \/ \E req \in Requests : GateThenRaise(req)
    \/ \E req \in Requests : GateCatchNoting(req, Invoked(req, 1))
    \/ \E key \in TapKeys(definitions) :
          \E hook \in Hooks, module \in Modules, asiPosition \in BOOLEAN :
             HookCall(hook, key, module, asiPosition)
    \/ AfterCompile
    \/ EndBuild
GateSpec == GateInit /\ [][GateNext]_vars

\* builds over definitions whose RuntimeValue may raise
RaiseTrees == {26, 27}
RaiseInit == InitWith(RaiseTrees)
RaiseNext ==
    \/ Compilation
    \/ \E err \in BOOLEAN : CacheGetCallback(err)
    \/ \E key \in TapKeys(definitions) :
          \E hook \in EvaluationHooks, module \in Modules :
             EvaluateBegin(hook, key, module)
    \/ \E key \in TapKeys(definitions) :
          \E hook \in EvaluationHooks, module \in Modules :
             EvaluateRaise(hook, key, module)
    \/ EvaluateCall
    \/ EvaluateCallRaise
    \/ EvaluateReturn
    \/ EndBuild
RaiseSpec == RaiseInit /\ [][RaiseNext]_vars

\* builds over definitions that are RuntimeValues, without resolve requests
RvTrees == {9, 10, 11, 12}
RvInit == InitWith(RvTrees)
RvNext ==
    \/ \E tree \in RvTrees : StartProcess(tree)
    \/ Compilation
    \/ \E err \in BOOLEAN : CacheGetCallback(err)
    \/ \E key \in TapKeys(definitions) :
          \E hook \in Hooks, module \in Modules, asiPosition \in BOOLEAN :
             HookCall(hook, key, module, asiPosition)
    \/ AfterCompile
    \/ EndBuild
RvSpec == RvInit /\ [][RvNext]_vars

\* builds in which up to MaxWriters modules report, without resolve requests
WriterTrees == {3, 17, 18}
WriterInit == InitWith(WriterTrees)
WriterNext ==
    \/ \E tree \in WriterTrees : StartProcess(tree)
    \/ Compilation
    \/ \E err \in BOOLEAN : CacheGetCallback(err)
    \/ \E key \in TapKeys(definitions) :
          \E hook \in Hooks, module \in Modules, asiPosition \in BOOLEAN :
             HookCallUpTo(MaxWriters, hook, key, module, asiPosition)
    \/ AfterCompile
    \/ EndBuild
WriterSpec == WriterInit /\ [][WriterNext]_vars

\* builds over definitions whose key paths have dots, without resolve
\* requests
WalkTrees == {20, 21, 22}
WalkInit == InitWith(WalkTrees)
WalkNext ==
    \/ \E tree \in WalkTrees : StartProcess(tree)
    \/ Compilation
    \/ \E err \in BOOLEAN : CacheGetCallback(err)
    \/ \E key \in TapKeys(definitions) :
          \E hook \in Hooks, module \in Modules, asiPosition \in BOOLEAN :
             HookCall(hook, key, module, asiPosition)
    \/ AfterCompile
    \/ EndBuild
WalkSpec == WalkInit /\ [][WalkNext]_vars

\* two plugins on two compilers of one process
PipeTrees == {1}
OtherTrees == {8}
\* what an earlier process over Trees[2] stored after /src/m1.js used FOO
EarlierSnapshot ==
    JSONStringify(hookCallback(EmptyState, "FOO", "2", "/src/m1.js"), 2)
PipeInit == InitFrom(PipeTrees, {Absent, EarlierSnapshot})
PipeNext ==
    \/ Compilation
    \/ \E err \in BOOLEAN : CacheGetCallback(err)
    \/ \E key \in TapKeys(definitions) :
          \E hook \in Hooks, module \in Modules, asiPosition \in BOOLEAN :
             HookCall(hook, key, module, asiPosition)
    \/ AfterCompile
    \/ EndBuild
    \/ \E tree \in OtherTrees : OtherApply(tree)
    \/ OtherCompilation
    \/ \E err \in BOOLEAN : OtherCacheGetCallback(err)
    \/ \E key \in IF other.applied THEN TapKeys(other.definitions) ELSE {} :
          \E hook \in Hooks, module \in OtherModules,
             asiPosition \in BOOLEAN :
             OtherHookCall(hook, key, module, asiPosition)
    \/ OtherAfterCompile
PipeSpec == PipeInit /\ [][PipeNext]_vars

\* calls of stringifyObj on mappings and arrays of up to MaxElements elements
Leaves ==
    {Prim("1"), Prim("\"s\""), Null, Undefined, NegZero, RegExpValue("/a/"),
     FunctionValue("function(){}"), BigIntValue("5"),
     RuntimeValue(Prim("2"), TRUE, <<>>)}
ElementValues ==
    Leaves \cup {Obj(<<"k">>, <<Prim("1")>>), Obj(<<>>, <<>>),
                 Arr(<<Prim("1")>>), Arr(<<>>)}
ElementLists == UNION {[1..n -> ElementValues] : n \in 0..MaxElements}
KeysOf(vs) == [i \in 1..Len(vs) |-> "k" \o ToString(i)]
StringifyInputs ==
    {Obj(KeysOf(vs), vs) : vs \in ElementLists}
       \cup {Arr(vs) : vs \in ElementLists}
AsiSafeValues == {"null", "true", "false", "undefined"}

StringifyInit ==
    /\ InitBase({7}, {Absent})
    /\ calc \in {[op |-> "call", obj |-> obj, asiSafe |-> asiSafe] :
                    obj \in StringifyInputs, asiSafe \in AsiSafeValues}

\* stringifyObj(obj, parser, runtimeTemplate, asiSafe) returns
Stringify ==
    /\ calc.op = "call"
    /\ calc' = [op |-> "return", obj |-> calc.obj, asiSafe |-> calc.asiSafe,
                out |-> stringifyObj(calc.obj, TRUE, calc.asiSafe)]
    /\ UNCHANGED <<proc, definitions, state, didAfterCompileHookRun,
                   didCodeGeneration, invalidModulePaths, cacheEmpty,
                   reconcilePromise, afterCompileTaps, persisted, pendingGets,
                   phase, build, compilations, signals, deferred, obs,
                   buildInfo, evalStack, recurseFlags, other>>

StringifyNext == Stringify
StringifySpec == StringifyInit /\ [][StringifyNext]_vars

\* the event loop runs every settled continuation and every completed read
\* A specification of single hook calls: one of the hooks the walker tapped
\* is called once for one key, outside any build.
HookTrees == {1, 3, 21, 23, 24, 25}

HookNames == Hooks \cup {"canRename"}

HookInit ==
    /\ InitBase(HookTrees, {Absent})
    /\ calc \in {[op |-> "call", hook |-> h, key |-> k, module |-> m,
                  asiPosition |-> a] :
                   h \in HookNames, k \in TapKeys(definitions),
                   m \in Modules, a \in BOOLEAN}

\* hook.for(key).call(expr): canRename taps approve; the other taps are the
\* callbacks wrapped by hookCallback
CallHook ==
    /\ calc.op = "call"
    /\ LET taps == CalledTaps(definitions, calc.hook, calc.key)
           r == IF calc.hook = "canRename"
                THEN [outcome |-> IF taps = <<>> THEN "none" ELSE "approved",
                      strCode |-> "", requirements |-> {}]
                ELSE CallTaps(taps, 1, calc.asiPosition)
       IN /\ calc' = [op |-> "return", hook |-> calc.hook, key |-> calc.key,
                      module |-> calc.module,
                      asiPosition |-> calc.asiPosition,
                      taps |-> taps, out |-> r]
          /\ IF r.outcome = "result"
             THEN /\ didCodeGeneration' = TRUE
                  /\ state' = hookCallback(state, calc.key, r.strCode,
                                           calc.module)
             ELSE UNCHANGED <<didCodeGeneration, state>>
    /\ UNCHANGED <<proc, definitions, didAfterCompileHookRun,
                   invalidModulePaths, cacheEmpty, reconcilePromise,
                   afterCompileTaps, persisted, pendingGets, phase, build,
                   compilations, signals, deferred, obs, buildInfo, evalStack,
                   recurseFlags, other>>

HookNext == CallHook

HookSpec == HookInit /\ [][HookNext]_vars

FairTrees == {7, 8, 9}
FairInit == InitWith(FairTrees)
FairSpec ==
    /\ FairInit /\ [][Next]_vars
    /\ WF_vars(\E req \in Requests : GateThen(req))
    /\ WF_vars(\E req \in Requests : GateCatch(req))
    /\ WF_vars(\E err \in BOOLEAN : CacheGetCallback(err))

\* ---------------------------------------------------------------------
\* Properties

\* the snapshot the load of this build reads
Snapshot == JSONParse(persisted)

\* the texts the definitions of tree serialize key to, in any position
KeyTexts(tree, key) ==
    {toCode(TreeTaps[tree][j].code, TRUE, asiSafe).text :
        j \in {i \in 1..Len(TreeTaps[tree]) : TreeTaps[tree][i].key = key},
        asiSafe \in {"null", "true", "false"}}

\* the keys of the snapshot whose text differs between the tree that
\* recorded them and the current tree
ChangedKeys ==
    {key \in DOMAIN Snapshot.values :
        KeyTexts(persisted.by, key) # KeyTexts(definitions, key)}

\* the modules the snapshot records as users of the keys
Users(keys) == UNION {Elements(Snapshot.modulesUsingKey[key]) : key \in keys}

\* this step is a get callback that ran the comparison to its end
LoadDone == pendingGets' < pendingGets /\ obs'.lastGet = "done"

\* this step is a get callback that received an error
LoadError == pendingGets' < pendingGets /\ obs'.lastGet = "error"

\* this step hands req on to the resolver
Delegated(req) == req \in deferred /\ req \notin deferred'

\* C1 (as stated): when the load completes, the invalidated set is exactly
\* the set of modules the previous build recorded as users of a key whose
\* serialized text differs between the two builds.
C1_TargetedInvalidation ==
    [][LoadDone => invalidModulePaths' = Users(ChangedKeys)]_vars

\* C2 (as stated): when the definitions did not change since the build that
\* wrote the snapshot, the load invalidates no module.
C2_IdempotentRebuild ==
    [][(LoadDone /\ persisted.by = definitions)
          => invalidModulePaths' = {}]_vars

\* C3 (as stated): a request is handed on to the resolver only after the
\* snapshot load of the current build has finished.
C3_OrderingBarrier ==
    [][\A req \in Requests : Delegated(req) => Loaded]_vars

\* C4 (as stated): a request for an invalidated module is handed on with the
\* cache-bypass flag and leaves the invalidated set, at most once per build
\* and module; every other request is handed on without the flag.
C4_OneShotOverride ==
    [][\A req \in Requests :
          Delegated(req) =>
             IF ModulePath(req) \in invalidModulePaths
             THEN /\ obs.forced[ModulePath(req)] = 0
                  /\ obs'.forced[ModulePath(req)] = 1
                  /\ ModulePath(req) \notin invalidModulePaths'
             ELSE obs'.forced = obs.forced]_vars

\* C5 (as stated): every request that waits for the load is eventually
\* handed on to the resolver.
C5_ResolutionNeverBlocked ==
    \A req \in Requests : (req \in deferred) ~> (req \notin deferred)

\* C6 (as stated): when the read of the snapshot fails, the build goes on as
\* though there were no snapshot: the failed read invalidates nothing and no
\* request is handed on with the cache-bypass flag.
C6_FailOpenOnReadError ==
    [][/\ LoadError => invalidModulePaths' = invalidModulePaths
       /\ \A req \in Requests :
             (Delegated(req) /\ obs.lastGet = "error")
                => obs'.forced = obs.forced]_vars

\* C7: within one build the snapshot is written at most once, however many
\* times afterCompile fires and however many taps are registered on it.
C7_PersistAtMostOnce == obs.stores <= 1

\* a build wrote the snapshot once while afterCompile fired twice with
\* several taps registered
C7_Witness ==
    /\ obs.stores = 1
    /\ signals >= 2
    /\ afterCompileTaps >= 2
    /\ compilations >= 2

\* C8 (as stated): a build in which afterCompile fires after a substitution
\* was recorded writes its state as the new snapshot during that build.
C8_PersistEveryCompletedBuild ==
    obs.signalAfterRecord => obs.stores >= 1

\* C9 (as stated): when afterCompile fires in a build that recorded no
\* substitution, the snapshot is not written and stays as it was.
C9_NoEmptyOverwrite ==
    [][(signals' > signals /\ obs.records = 0)
          => (persisted' = persisted /\ obs'.stores = obs.stores)]_vars

\* the [key, text, module] entries a Run State or a snapshot holds
Entries(st) ==
    UNION {{[key |-> key, text |-> st.values[key], module |-> module] :
               module \in Elements(st.modulesUsingKey[key])} :
           key \in DOMAIN st.values \cap DOMAIN st.modulesUsingKey}

\* C10 (as stated): the load recomputes the text of every key of the
\* snapshot and invalidates the recorded users of every key whose recomputed
\* text differs from the stored one.
C10_EagerDetection ==
    [][LoadDone =>
          \A key \in DOMAIN Snapshot.values :
             Snapshot.values[key] \notin KeyTexts(definitions, key)
                => Elements(Snapshot.modulesUsingKey[key])
                      \subseteq invalidModulePaths']_vars

\* this step begins a build
BuildStart == phase = "idle" /\ phase' = "running"

\* this step writes the snapshot
StoreStep == obs'.stores > obs.stores

\* C11 (as stated): Run State is empty when a build begins, and the snapshot
\* a build writes holds only keys, texts and modules recorded by
\* substitutions of that same build.
C11_RunStatePerBuild ==
    [][/\ BuildStart => state = EmptyState
       /\ StoreStep => Entries(JSONParse(persisted')) \subseteq obs.recorded]_vars

\* C13 (as stated): every behaviour that produces a result records the key,
\* the serialized text of the value of the key and the consuming module in
\* Run State.
C13_ReportIffResult ==
    \A e \in obs.recorded :
       /\ e.text \in KeyTexts(definitions, e.key)
       /\ e.key \in DOMAIN state.values
       /\ e.module \in Elements(state.modulesUsingKey[e.key])

\* the keys of the definitions
NumberOfKeys == Len(Trees[definitions].ks)

\* C12 (as stated): the evaluation of a key nests no deeper than the number
\* of keys, and no hook of a key is entered again while a callback of the
\* same hook and key is being evaluated.
C12_RecursionGuard ==
    /\ Len(evalStack) <= NumberOfKeys
    /\ \A i, j \in 1..Len(evalStack) :
          LET ti == TreeTaps[definitions][evalStack[i].tap]
              tj == TreeTaps[definitions][evalStack[j].tap]
          IN (i < j) => (ti.hook # tj.hook \/ ti.key # tj.key)

\* C14 (as stated): what a pipeline writes and whether it writes do not
\* depend on a second pipeline of the same process: in the first build of the
\* first compiler the snapshot written holds only what that build recorded,
\* and afterCompile after a recorded substitution writes the snapshot.
C14_NoCrossPipelineLeakage ==
    [][/\ (build = 1 /\ StoreStep)
             => Entries(JSONParse(persisted')) \subseteq obs.recorded
       /\ (build = 1 /\ signals' > signals /\ obs.records > 0)
             => obs'.stores >= 1]_vars

\* this step is a get callback of one of the plugins that found no snapshot
AbsentLoad ==
    \/ pendingGets' < pendingGets /\ obs'.lastGet = "absent"
    \/ /\ other.applied
       /\ other'.applied
       /\ other'.pendingGets < other.pendingGets
       /\ other'.lastGet = "absent"

\* C15 (as stated): when the persisted snapshot is absent, the invalidation
\* set is empty after the load, and every resolution request of that build
\* is handed to the wrapped resolution step without the
\* force-real-resolution mark.
C15_SnapshotAbsent ==
    [][/\ AbsentLoad => invalidModulePaths' = {}
       /\ \A req \in Requests :
             (obs.absent /\ Delegated(req)) => obs'.forced = obs.forced]_vars

RECURSIVE JoinedNull(_, _)
\* the elements of obj from index i on, each serialized with asiSafety null
\* and, in a mapping, behind its quoted key and ":", joined by ","
JoinedNull(obj, i) ==
    IF i > Len(obj.vs) THEN ""
    ELSE (IF obj.t = "array" THEN ""
          ELSE JSONStringifyKey(obj.ks[i]) \o ":")
         \o toCode(obj.vs[i], TRUE, "null").text
         \o (IF i < Len(obj.vs) THEN "," ELSE "")
         \o JoinedNull(obj, i + 1)

\* the bare literal of obj
BareLiteral(obj) ==
    IF obj.t = "array" THEN "[" \o JoinedNull(obj, 1) \o "]"
    ELSE "{" \o JoinedNull(obj, 1) \o "}"

\* C16: a mapping serialized with asiSafety false is ";" and the
\* parenthesized literal, with true the parenthesized literal, with null the
\* bare literal; an array serialized with true or null is the bare literal,
\* with false ";" and the bare literal; the elements inside the literal are
\* serialized with asiSafety null.
C16_AsiSafetyWrapping ==
    calc.op = "return" =>
       /\ ~calc.out.thrown
       /\ calc.obj.t = "object" =>
             /\ calc.asiSafe = "false" =>
                   calc.out.text = ";(" \o BareLiteral(calc.obj) \o ")"
             /\ calc.asiSafe = "true" =>
                   calc.out.text = "(" \o BareLiteral(calc.obj) \o ")"
             /\ calc.asiSafe = "null" =>
                   calc.out.text = BareLiteral(calc.obj)
       /\ calc.obj.t = "array" =>
             /\ calc.asiSafe = "false" =>
                   calc.out.text = ";" \o BareLiteral(calc.obj)
             /\ calc.asiSafe \in {"true", "null"} =>
                   calc.out.text = BareLiteral(calc.obj)

\* a mapping that holds a mapping has been serialized with asiSafety false
C16_Witness ==
    /\ calc.op = "return"
    /\ calc.asiSafe = "false"
    /\ calc.obj = Obj(<<"k1", "k2">>,
                      <<Obj(<<"k">>, <<Prim("1")>>), Arr(<<Prim("1")>>)>>)
    /\ calc.out.text = ";({\"k1\":{\"k\":1},\"k2\":[1]})"

\* the paths a RuntimeValue declares
DeclaredPaths(code) ==
    {code.fileDependencies.list[j] : j \in 1..Len(code.fileDependencies.list)}

\* C17: a resolution of a RuntimeValue with fileDependencies true leaves the
\* consuming module uncacheable and its file-dependency set as it was; with
\* a list it adds every listed path and leaves the cacheable flag as it was;
\* either way compute is called once, after the update, with a context that
\* exposes the module, and the resolution returns its result. The
\* resolutions of one hook call follow each other on the same module, and
\* no other module's metadata changes.
C17_RuntimeValueEffects ==
    [][obs'.records > obs.records =>
         /\ \A i \in 1..Len(obs'.execs) :
               LET e == obs'.execs[i]
               IN /\ e.code.fileDependencies.isTrue =>
                        /\ e.after.cacheable = FALSE
                        /\ e.after.fileDependencies =
                              e.before.fileDependencies
                  /\ ~e.code.fileDependencies.isTrue =>
                        /\ e.after.fileDependencies =
                              e.before.fileDependencies
                                 \cup DeclaredPaths(e.code)
                        /\ e.after.cacheable = e.before.cacheable
                  /\ e.calls = <<"buildInfo", "fn">>
                  /\ e.context = [module |-> e.module]
                  /\ e.returned = e.code.fn
                  /\ e.module = obs'.execs[1].module
                  /\ e.before = IF i = 1 THEN buildInfo[e.module]
                                ELSE obs'.execs[i - 1].after
         /\ buildInfo' =
               IF obs'.execs = <<>> THEN buildInfo
               ELSE [buildInfo EXCEPT
                        ![obs'.execs[1].module] =
                            obs'.execs[Len(obs'.execs)].after]]_vars

\* a hook call has resolved a RuntimeValue with a list and, inside the array
\* it returned, one with a list and one with true
C17_Witness ==
    /\ Len(obs.execs) = 3
    /\ ~obs.execs[1].code.fileDependencies.isTrue
    /\ ~obs.execs[2].code.fileDependencies.isTrue
    /\ obs.execs[3].code.fileDependencies.isTrue
    /\ buildInfo["/src/m1.js"] =
          [cacheable |-> FALSE,
           fileDependencies |-> {"/src/a.txt", "/src/dep.txt"}]
    /\ buildInfo["/src/m2.js"] = NoBuildInfo["/src/m2.js"]

\* C18 (as stated): once a load of the build has completed, no path is added
\* to the invalidation set for the rest of that build: the set only
\* shrinks, also when the compilation event fires more than once.
C18_ComputedOnce ==
    [][(obs.loadedOk /\ build' = build /\ proc' = proc)
          => invalidModulePaths' \subseteq invalidModulePaths]_vars

\* the paths the load of a next build invalidates when the build that
\* recorded st stores it and the next build runs over Trees[tree]
NextInvalidation(st, tree) ==
    run(Trees[tree], "", 1, JSONParse(JSONStringify(st, definitions)),
        {}).invalid

\* this step reports (key, module), which this build has reported before
ReportedAgain(key) ==
    /\ obs'.records > obs.records
    /\ key \in DOMAIN state.modulesUsingKey
    /\ Len(state'.modulesUsingKey[key]) = Len(state.modulesUsingKey[key]) + 1
    /\ \E e \in obs.recorded :
          /\ e.key = key
          /\ e.module =
                state'.modulesUsingKey[key][Len(state'.modulesUsingKey[key])]

\* C19 (as stated): whatever the order of the reports of a build, a module
\* reported for a key is recorded for it and a recorded module stays
\* recorded, and reporting a (key, module) again leaves the invalidation
\* set of the next build as it was after the first report.
C19_ManyWriters ==
    [][/\ \A e \in obs'.recorded :
             /\ e.key \in DOMAIN state'.modulesUsingKey
             /\ e.module \in Elements(state'.modulesUsingKey[e.key])
       /\ proc' = proc =>
             \A key \in DOMAIN state.modulesUsingKey :
                /\ key \in DOMAIN state'.modulesUsingKey
                /\ Elements(state.modulesUsingKey[key])
                      \subseteq Elements(state'.modulesUsingKey[key])
       /\ \A key \in DOMAIN state'.modulesUsingKey :
             ReportedAgain(key) =>
                \A tree \in 1..Len(Trees) :
                   SameKeys(definitions, tree) =>
                      NextInvalidation(state', tree)
                         = NextInvalidation(state, tree)]_vars

\* this step is a get callback that received a snapshot
SnapshotLoad ==
    pendingGets' < pendingGets /\ obs'.lastGet \in {"done", "thrown"}

\* C20 (as stated): the load changes no module's cacheable flag or
\* file-dependency set, and it resolves the RuntimeValues of the definitions
\* without a module: the recomputation comes to its end.
C20_LoadWithoutModuleEffects ==
    [][SnapshotLoad =>
          /\ buildInfo' = buildInfo
          /\ RuntimeValuesIn(Trees[definitions]) # <<>>
                => obs'.lastGet = "done"]_vars

\* the callback on top of the evaluation
TopFrame == evalStack[Len(evalStack)]

\* the hook and the key parser.evaluate of the callback on top calls next
CalledHook ==
    IF TopFrame.stage = "typeof" THEN "evaluateTypeof"
    ELSE "evaluateIdentifier"
CalledKey ==
    ParseExpr(EvaluatedText(TreeTaps[definitions][TopFrame.tap])).atom

\* this step is that call
HookCalledInside ==
    /\ evalStack # <<>>
    /\ TopFrame.stage # "done"
    /\ evalStack' # evalStack

\* an evaluation by hook of key is in progress
InProgress(hook, key) ==
    \E i \in 1..Len(evalStack) :
       /\ TreeTaps[definitions][evalStack[i].tap].hook = hook
       /\ TreeTaps[definitions][evalStack[i].tap].key = key

\* C21: the identifier guard and the typeof guard of a key are separate: a
\* hook of a key called while only the other hook of that key (or any other
\* evaluation) is in progress enters its callback.
C21_IndependentGuards ==
    [][(/\ HookCalledInside
        /\ Len(CalledTaps(definitions, CalledHook, CalledKey)) > 0
        /\ ~InProgress(CalledHook, CalledKey))
          => /\ Len(evalStack') = Len(evalStack) + 1
             /\ TreeTaps[definitions][evalStack'[Len(evalStack')].tap].hook
                   = CalledHook
             /\ TreeTaps[definitions][evalStack'[Len(evalStack')].tap].key
                   = CalledKey]_vars

\* the typeof evaluation of a has been entered while the identifier
\* evaluation of a is in progress
C21_Witness ==
    /\ Len(evalStack) = 2
    /\ TreeTaps[definitions][evalStack[1].tap].hook = "evaluateIdentifier"
    /\ TreeTaps[definitions][evalStack[2].tap].hook = "evaluateTypeof"
    /\ TreeTaps[definitions][evalStack[1].tap].key = "a"
    /\ TreeTaps[definitions][evalStack[2].tap].key = "a"

\* the names canRename is tapped for
RenameNames ==
    {TreeTaps[definitions][i].key :
        i \in {j \in 1..Len(TreeTaps[definitions]) :
                 TreeTaps[definitions][j].hook = "canRename"}}

\* the key paths of the leaves: every leaf taps evaluateTypeof for its path
LeafPaths ==
    {TreeTaps[definitions][i].key :
        i \in {j \in 1..Len(TreeTaps[definitions]) :
                 /\ TreeTaps[definitions][j].hook = "evaluateTypeof"
                 /\ TreeTaps[definitions][j].kind = "leaf"}}

\* the strict dot-prefixes of a key path
StrictPrefixes(path) ==
    {SubSeq(path, 1, i - 1) : i \in {j \in 1..Len(path) :
                                        SubSeq(path, j, j) = "."}}

\* C22 (as stated): once a compilation has walked the definitions, canRename
\* is tapped for every strict dot-prefix of the key path of every leaf, and
\* for no name that is neither such a prefix nor a leaf's key path.
C22_RenamePrefixes ==
    build > 0 =>
       /\ \A path \in LeafPaths : StrictPrefixes(path) \subseteq RenameNames
       /\ \A name \in RenameNames :
             \/ name \in LeafPaths
             \/ \E path \in LeafPaths : name \in StrictPrefixes(path)


\* the keys of the definitions given only in the form "typeof K"
TypeofOnlyKeys ==
    {StripTypeof(Trees[definitions].ks[i]) :
        i \in {j \in 1..Len(Trees[definitions].ks) :
                  IsTypeofKey(Trees[definitions].ks[j])}}
    \ {Trees[definitions].ks[i] : i \in 1..Len(Trees[definitions].ks)}

\* C23: an entry "typeof X" registers only typeof-evaluation and
\* typeof-substitution for X, so a key given only in that form has no
\* rename-approval, identifier-evaluation or expression-substitution; the
\* typeof-substitution of its entry uses the serialized text itself as the
\* typeof value (a result exactly when that text is a string), not the text
\* wrapped in typeof (...)
C23_TypeofOnlyKeys ==
    calc.op = "return" =>
       /\ \A i \in 1..Len(calc.taps) :
             calc.taps[i].isTypeof =>
                calc.hook \in {"evaluateTypeof", "typeof"}
       /\ calc.key \in TypeofOnlyKeys =>
             /\ calc.hook \in {"canRename", "evaluateIdentifier", "expression"}
                  => calc.taps = <<>> /\ calc.out.outcome = "none"
             /\ calc.hook \in {"evaluateTypeof", "typeof"}
                  => Len(calc.taps) = 1 /\ calc.taps[1].isTypeof
             /\ calc.hook = "typeof" =>
                   (calc.out.outcome = "result"
                      <=> calc.taps[1].code.s \in StringLiterals)

\* the typeof hook was called for T1, defined only as "typeof T1" with the
\* text 1, and gave no result
C23_Witness ==
    /\ calc.op = "return"
    /\ calc.hook = "typeof"
    /\ calc.key = "T1"
    /\ calc.key \in TypeofOnlyKeys
    /\ calc.out.outcome = "none"

\* the text references the helper in call position: the helper's name, white
\* space and an opening parenthesis
CallPosition(text) ==
    \E i \in 1..Len(text) :
       /\ HelperAt(text, i)
       /\ CharAt(text, SkipWhitespace(text, i + Len(RequireHelper))) = "("

\* C24: the replacement made by expression-substitution declares "require"
\* exactly when the serialized text references the module-require helper in
\* call position, "require scope" exactly when it references the helper but
\* not in call position, and nothing when the helper does not occur
C24_RuntimeCapability ==
    (calc.op = "return" /\ calc.hook = "expression"
       /\ calc.out.outcome = "result") =>
       /\ "require" \in calc.out.requirements
             <=> CallPosition(calc.out.strCode)
       /\ "requireScope" \in calc.out.requirements
             <=> (TestRequire(calc.out.strCode)
                    /\ ~CallPosition(calc.out.strCode))
       /\ calc.out.requirements = {}
             <=> ~TestRequire(calc.out.strCode)

\* the taps of the leaf entries for key, those of the entry "key" before
\* those of the entry "typeof key"
LeafTaps(key) ==
    SelectSeq(TreeTaps[definitions],
              LAMBDA t : t.kind = "leaf" /\ t.key = key /\ ~t.isTypeof)
    \o SelectSeq(TreeTaps[definitions],
                 LAMBDA t : t.kind = "leaf" /\ t.key = key /\ t.isTypeof)

\* the text the load recomputes for the definition of key
RecomputedText(key) == toCode(LeafTaps(key)[1].code, FALSE, "null").text

\* C25: a text Run State holds for a leaf key is the serializer's output for
\* the key's definition with ASI-safety null, the text the load recomputes,
\* whichever hook recorded it and whether the key was defined as "K", as
\* "typeof K" or both
C25_RecordedEqualsRecomputed ==
    \A key \in DOMAIN state.values :
       LeafTaps(key) # <<>> => state.values[key] = RecomputedText(key)

\* C26: whenever no evaluation is in progress the recurse and recurseTypeof
\* flags of every key are false, also after an evaluation that ended because
\* the serializer, the compute of a RuntimeValue or parser.evaluate raised,
\* so that a later reference to the key enters its callback
C26_GuardsReleased ==
    evalStack = <<>> =>
       /\ recurseFlags = {}
       /\ \A i \in 1..Len(TreeTaps[definitions]) :
             (/\ TreeTaps[definitions][i].kind = "leaf"
              /\ TreeTaps[definitions][i].hook \in EvaluationHooks)
                => FirstFree(TreeTaps[definitions][i].hook,
                             TreeTaps[definitions][i].key) > 0

\* C27: for each intercepted resolution request the wrapped resolution step
\* is called exactly once, whether the snapshot was absent, the request hit
\* or missed the invalidated set, the load was rejected, or an exception was
\* raised inside the continuation of the gate
C27_ExactlyOnceDelegation ==
    calc.op = "gate" => calc.invoked = 1
====
